---- MODULE Spec2Model ----
(***************************************************************************)
(* Dense Cholesky backends of ceres-solver                                 *)
(* (internal/ceres/dense_cholesky.cc): the Factorize / Solve /             *)
(* FactorAndSolve protocol of the Eigen, LAPACK and CUDA (32 and 64 bit)   *)
(* implementations of DenseCholesky.                                       *)
(*                                                                         *)
(* One backend instance and its caller are modelled. Every action is one   *)
(* whole call. Matrices are diagonal: a matrix is the sequence of its      *)
(* diagonal entries, so that the native factorization and triangular       *)
(* solve (LAPACK, cuSOLVER, Eigen::LLT) are computed exactly. Status       *)
(* codes of native calls that do not follow from the data (argument        *)
(* errors, launch and synchronization status) are inputs of the call.      *)
(* LOG(FATAL) terminates the process: the call does not return.            *)
(***************************************************************************)
EXTENDS Integers, Sequences, FiniteSets, TLC

\* Largest matrix dimension the caller passes.
MaxN == 2
\* Largest scratch workspace size the device asks for.
MaxWs == 2

\* Half-width of the window of dimensions tried around the largest one whose
\* square fits an int.
MaxSpread == 50

\* Largest number of calls (Create included) a caller of a pair of instances
\* makes.
MaxCalls == 3

\* Entries of the caller's right-hand sides (divisible by every pivot).
RhsVals == {16, 32}
\* Argument-error codes a native factorization may report (0: none).
FaultCodes == {0, -1}
\* Status codes the native triangular solve may report.
SolveCodes == {-1, 0, 1}

Dims == 1..MaxN
\* The caller's matrices: of each dimension n the positive definite diag(4,..,4)
\* (k = 0) and, for each k in 1..n, the one whose leading minor of order k is
\* the first that is not positive definite (k > n: as k = 0); and diag(1, -1).
MatrixOf(n, k) == [i \in 1..n |-> IF i = k THEN -1 ELSE 4]
Matrices == {MatrixOf(n, k) : n \in Dims, k \in 0..MaxN} \cup {<<1, -1>>}
\* The caller's rhs and solution buffers hold MaxN elements. The caller hands
\* each new linear system a zero-filled solution buffer.
Zeros == [i \in 1..MaxN |-> 0]
RhsVectors == {[i \in 1..MaxN |-> v] : v \in RhsVals}
NonSuccess == {"FAILURE", "FATAL_ERROR"}

(***************************************************************************)
(* Native routines on diagonal matrices.                                   *)
(***************************************************************************)
Sqrt(v) == CHOOSE r \in 0..v : r * r = v

\* Order of the first leading minor that is not positive definite, 0 if none.
LeadingMinor(a) ==
  IF \E i \in 1..Len(a) : a[i] <= 0
  THEN CHOOSE i \in 1..Len(a) : a[i] <= 0 /\ \A j \in 1..(i - 1) : a[j] > 0
  ELSE 0

\* The buffer after the in-place lower Cholesky factorization: columns before
\* the failing one hold the factor, the rest is as it was.
PotrfFactor(a) ==
  [i \in 1..Len(a) |->
     IF LeadingMinor(a) = 0 \/ i < LeadingMinor(a) THEN Sqrt(a[i]) ELSE a[i]]

\* info / error cell of potrf: an argument error, else the failing minor.
PotrfInfo(a, fault) == IF fault < 0 THEN fault ELSE LeadingMinor(a)
PotrfOut(a, fault) == IF fault < 0 THEN a ELSE PotrfFactor(a)

\* potrs: solves (L L^T) x = b from the factor buffer l, n unknowns.
Potrs(l, b, n) == [i \in 1..n |-> b[i] \div (l[i] * l[i])]

\* buf with its first n elements replaced by vals.
WriteFirst(buf, n, vals) ==
  [i \in 1..Len(buf) |-> IF i <= n THEN vals[i] ELSE buf[i]]

Contains(seq, x) == \E i \in 1..Len(seq) : seq[i] = x

Msg(text, arg) == [text |-> text, arg |-> arg]

\* What a call hands back: the world after it, the returned status ("NONE"
\* when LOG(FATAL) ended the process), the native operations it performed and
\* whether it wrote the message.
Ret(w, status, ops, wrote) ==
  [w |-> w, ret |-> status, ops |-> ops, wrote |-> wrote]

SetMessage(w, text, arg) == [w EXCEPT !.message = Msg(text, arg)]
LogFatal(w) == [w EXCEPT !.aborted = TRUE]

(***************************************************************************)
(* The world a call acts on:                                               *)
(*   w.inst      the backend instance (its kind and member variables)      *)
(*   w.lhs_buf   the caller's lhs buffer                                    *)
(*   w.solution  the caller's solution buffer                              *)
(*   w.message   the caller's diagnostic string                            *)
(*   w.aborted   LOG(FATAL) or a crash has ended the process               *)
(***************************************************************************)

\* CudaBuffer<T>::Reserve: the capacity grows to the requested size and
\* never shrinks.
Reserve(size, n) == IF n > size THEN n ELSE size

\* FactorizeDimension recording a 1 x 1 system whatever the caller passed.
FactorizeDimension_Unit(num_cols) == 1

\* num_cols_ = num_cols: the dimension Factorize records for later Solve
\* calls.
FactorizeDimension(num_cols) == num_cols

(***************************************************************************)
(* EigenDenseCholesky                                                      *)
(***************************************************************************)
\* LLTType(m): the decomposition of the num_cols x num_cols matrix mapped on
\* the caller's buffer, held in an object of its own.
LLTType(m, num_cols) ==
  [info |-> IF LeadingMinor(m) = 0 THEN "Success" ELSE "NumericalIssue",
   cols |-> num_cols,
   L    |-> PotrfFactor(m)]

EigenDenseCholesky_Factorize(w, num_cols) ==
  LET llt == LLTType(w.lhs_buf, num_cols)
      w1 == [w EXCEPT !.inst.llt_ = llt]
  IN IF llt.info # "Success"
     THEN Ret(SetMessage(w1,
                "Eigen failure. Unable to perform dense Cholesky factorization.", 0),
              "FAILURE", <<"LLT">>, TRUE)
     ELSE Ret(SetMessage(w1, "Success.", 0), "SUCCESS", <<"LLT">>, TRUE)

\* llt_ is a null unique_ptr until the first Factorize: llt_->info() is then
\* undefined behaviour, and ub picks what the build does with it.
EigenDenseCholesky_Solve(w, rhs, ub) ==
  LET llt == w.inst.llt_
      failure == Ret(SetMessage(w,
                   "Eigen failure. Unable to perform dense Cholesky factorization.", 0),
                   "FAILURE", <<>>, TRUE)
  IN IF llt.info = "null"
     THEN CASE ub = "crash"   -> Ret(LogFatal(w), "NONE", <<>>, FALSE)
            [] ub = "failure" -> failure
            [] OTHER          ->
                 Ret(SetMessage([w EXCEPT !.solution = rhs], "Success.", 0),
                     "SUCCESS", <<"solve">>, TRUE)
     ELSE IF llt.info # "Success"
     THEN failure
     ELSE Ret(SetMessage(
                [w EXCEPT !.solution =
                   WriteFirst(@, llt.cols, Potrs(llt.L, rhs, llt.cols))],
                "Success.", 0),
              "SUCCESS", <<"solve">>, TRUE)

(***************************************************************************)
(* LAPACKDenseCholesky                                                     *)
(***************************************************************************)
\* LAPACKFactorizeBranch without its info > 0 branch.
LAPACKFactorizeBranch_NoFailure(info) ==
  IF info < 0 THEN "FATAL_ERROR" ELSE "SUCCESS"

\* The branch Factorize takes on dpotrf's info.
LAPACKFactorizeBranch(info) ==
  IF info < 0 THEN "FATAL_ERROR"
  ELSE IF info > 0 THEN "FAILURE"
  ELSE "SUCCESS"

\* lhs_ keeps the caller's pointer: dpotrf_ factorizes the caller's buffer in
\* place.
LAPACKDenseCholesky_Factorize(w, num_cols, fault) ==
  LET info == PotrfInfo(w.lhs_buf, fault)
      branch == LAPACKFactorizeBranch(info)
      w1 == [w EXCEPT !.inst.lhs_ = "caller",
                      !.inst.num_cols_ = FactorizeDimension(num_cols),
                      !.lhs_buf = PotrfOut(@, fault),
                      !.inst.termination_type_ = branch]
  IN CASE branch = "FATAL_ERROR" ->
            Ret(LogFatal(w1), "NONE", <<"dpotrf_">>, FALSE)
       [] branch = "FAILURE" ->
            Ret(SetMessage(w1,
                  "LAPACK::dpotrf numerical failure. The leading minor of order %d is not positive definite.",
                  info),
                "FAILURE", <<"dpotrf_">>, TRUE)
       [] OTHER ->
            Ret(SetMessage(w1, "Success.", 0), "SUCCESS", <<"dpotrf_">>, TRUE)

\* The buffer dpotrs_ reads the factor from: what lhs_ points to.
LAPACKFactor(w) == IF w.inst.lhs_ = "caller" THEN w.lhs_buf ELSE <<>>

\* LAPACKSolveCopy without the copy: dpotrs_ solves for what the solution
\* buffer held.
LAPACKSolveCopy_NoCopy(w, rhs) == w.solution

\* The rhs dpotrs_ solves for in place: std::copy_n(rhs, num_cols_, solution).
LAPACKSolveCopy(w, rhs) == WriteFirst(w.solution, w.inst.num_cols_, rhs)

\* termination_type_ is not read: the solve runs whatever Factorize returned.
\* info > 0 takes no branch of its own and ends as info = 0 does.
LAPACKDenseCholesky_Solve(w, rhs, info) ==
  LET n == w.inst.num_cols_
      copied == LAPACKSolveCopy(w, rhs)
      solved == IF info < 0 THEN copied
                ELSE WriteFirst(copied, n, Potrs(LAPACKFactor(w), copied, n))
      w1 == [w EXCEPT !.solution = solved]
      ops == <<"copy_n", "dpotrs_">>
  IN IF info < 0
     THEN Ret(LogFatal([w1 EXCEPT !.inst.termination_type_ = "FATAL_ERROR"]),
              "NONE", ops, FALSE)
     ELSE Ret(SetMessage([w1 EXCEPT !.inst.termination_type_ = "SUCCESS"],
                         "Success", 0),
              "SUCCESS", ops, TRUE)

(***************************************************************************)
(* CUDADenseCholesky32Bit                                                  *)
(* Native inputs of Factorize: nat.bufsize_ok, nat.ws (the workspace size  *)
(* the device asks for), nat.launch_ok, nat.dev_ok, nat.stream_ok,         *)
(* nat.fault.  Of Solve: nat.launch_ok, nat.dev_ok, nat.stream_ok,         *)
(* nat.err (the error cell the solve kernel writes).                       *)
(***************************************************************************)
\* int arithmetic. An int has four bytes; byte k (0 the lowest) of n >= 0:
Byte(n, k) ==
  CASE k = 0 -> n % 256
    [] k = 1 -> (n \div 256) % 256
    [] k = 2 -> (n \div 65536) % 256
    [] k = 3 -> (n \div 16777216) % 256
    [] OTHER -> 0

\* The exact product of a, b >= 0, byte by byte (schoolbook multiplication:
\* column k sums the byte products of weight 256^k, carries move up).
ProductColumn(a, b, k) ==
  LET Term(i) == IF k - i \in 0..3 THEN Byte(a, i) * Byte(b, k - i) ELSE 0
  IN Term(0) + Term(1) + Term(2) + Term(3)

RECURSIVE ProductCarry(_, _, _)
ProductCarry(a, b, k) ==
  IF k < 0 THEN 0
  ELSE (ProductColumn(a, b, k) + ProductCarry(a, b, k - 1)) \div 256

\* The eight bytes of a * b, lowest first.
ProductBytes(a, b) ==
  [k \in 1..8 |->
     (ProductColumn(a, b, k - 1) + ProductCarry(a, b, k - 2)) % 256]

\* The int whose four bytes are the first four of p (two's complement).
IntOfBytes(p) ==
  p[1] + p[2] * 256 + p[3] * 65536
  + (IF p[4] >= 128 THEN p[4] - 256 ELSE p[4]) * 16777216

\* a * b does not fit an int: signed overflow.
IntMulOverflows(a, b) ==
  LET p == ProductBytes(a, b)
  IN p[4] >= 128 \/ \E k \in 5..8 : p[k] # 0

\* a * b in int, a, b >= 0: what the multiply instruction leaves, the low four
\* bytes of the product. (Operands below 2^15 have a product below 2^30,
\* which is its own low four bytes.)
IntMul(a, b) ==
  IF a < 32768 /\ b < 32768 THEN a * b ELSE IntOfBytes(ProductBytes(a, b))

\* What the build makes of num_cols * num_cols: the product when it fits; on
\* signed overflow, which is undefined, the wrapped value or a trap (-ftrapv).
IntMulOutcomes(a, b) ==
  IF IntMulOverflows(a, b) THEN {"wrapped", "trapped"} ELSE {"computed"}

\* LhsElements reserving one column only.
LhsElements_OneColumn(num_cols) == num_cols

\* The element count Factorize reserves and copies: num_cols * num_cols, an
\* int expression.
LhsElements(num_cols) == IntMul(num_cols, num_cols)

\* The synchronization calls made: || skips cudaStreamSynchronize when
\* cudaDeviceSynchronize has already failed.
SyncOps(dev_ok) ==
  IF dev_ok THEN <<"cudaDeviceSynchronize", "cudaStreamSynchronize">>
  ELSE <<"cudaDeviceSynchronize">>

\* The 32-bit synchronization test testing the two statuses, as the 64-bit one.
CUDA32SyncFailed_Tested(dev_ok, stream_ok) == ~dev_ok \/ ~stream_ok

\* if (cudaDeviceSynchronize() != cudaSuccess || cudaStreamSynchronize(stream_),
\*     cudaSuccess): a comma expression, whose value is its right operand
\* cudaSuccess, that is 0: the branch is never taken.
CUDA32SyncFailed(dev_ok, stream_ok) == FALSE

\* if (cudaDeviceSynchronize() != cudaSuccess ||
\*     cudaStreamSynchronize(stream_) != cudaSuccess)
CUDA64SyncFailed(dev_ok, stream_ok) == ~dev_ok \/ ~stream_ok

\* CUDAFactorizeReset keeping what the instance recorded before.
CUDAFactorizeReset_Keep(recorded) == recorded

\* factorize_result_ = LINEAR_SOLVER_FATAL_ERROR, the first statement of
\* Factorize: what the instance recorded before is dropped.
CUDAFactorizeReset(recorded) == "FATAL_ERROR"

\* The branch Factorize takes on the error cell it copied to the host.
CUDAFactorizeBranch(error) ==
  IF error < 0 THEN "FATAL_ERROR"
  ELSE IF error > 0 THEN "FAILURE"
  ELSE "SUCCESS"

\* Factorize up to the launch of the factorization kernel: it returns at once
\* when the workspace query or the launch fails, else ("WAIT") it goes on to
\* wait for the device.
CUDADenseCholesky32Bit_FactorizeLaunch(w, num_cols, nat) ==
  LET w1 == [w EXCEPT !.inst.factorize_result_ = CUDAFactorizeReset(@),
                      !.inst.lhs_size = Reserve(@, LhsElements(num_cols)),
                      !.inst.num_cols_ = FactorizeDimension(num_cols),
                      !.inst.lhs_data = w.lhs_buf]
      ops1 == <<"Reserve(lhs_)", "CopyToGpu(lhs_)", "cusolverDnDpotrf_bufferSize">>
      w2 == [w1 EXCEPT !.inst.ws_size = Reserve(@, nat.ws)]
      ops2 == ops1 \o <<"Reserve(device_workspace_)", "cusolverDnDpotrf">>
      w3 == [w2 EXCEPT !.inst.lhs_data = PotrfOut(@, nat.fault)]
  IN IF ~nat.bufsize_ok
     THEN Ret(SetMessage(w1, "cuSolverDN::cusolverDnDpotrf_bufferSize failed.", 0),
              "FATAL_ERROR", ops1, TRUE)
     ELSE IF ~nat.launch_ok
     THEN Ret(SetMessage(w2, "cuSolverDN::cusolverDnDpotrf failed.", 0),
              "FATAL_ERROR", ops2, TRUE)
     ELSE Ret(w3, "WAIT", ops2, FALSE)

\* Factorize from the synchronization on, in the world w the wait ends in:
\* error is the error cell the kernel wrote, ops the operations made so far.
CUDADenseCholesky32Bit_FactorizeFinish(w, error, ops, nat) ==
  LET ops3 == ops \o SyncOps(nat.dev_ok)
      ops4 == ops3 \o <<"CopyToHost(error_)">>
      branch == CUDAFactorizeBranch(error)
  IN IF CUDA32SyncFailed(nat.dev_ok, nat.stream_ok)
     THEN Ret(SetMessage(w, "Cuda device synchronization failed.", 0),
              "FATAL_ERROR", ops3, TRUE)
     ELSE CASE branch = "FATAL_ERROR" ->
                 Ret(LogFatal(w), "NONE", ops4, FALSE)
            [] branch = "FAILURE" ->
                 Ret(SetMessage([w EXCEPT !.inst.factorize_result_ = "FAILURE"],
                       "cuSolverDN::cusolverDnDpotrf numerical failure. The leading minor of order %d is not positive definite.",
                       error),
                     "FAILURE", ops4, TRUE)
            [] OTHER ->
                 Ret(SetMessage([w EXCEPT !.inst.factorize_result_ = "SUCCESS"],
                                "Success", 0),
                     "SUCCESS", ops4, TRUE)

CUDADenseCholesky32Bit_Factorize(w, num_cols, nat) ==
  LET l == CUDADenseCholesky32Bit_FactorizeLaunch(w, num_cols, nat)
  IN IF l.ret # "WAIT" THEN l
     ELSE CUDADenseCholesky32Bit_FactorizeFinish(l.w, PotrfInfo(w.lhs_buf, nat.fault),
                                 l.ops, nat)

\* The device rhs_ buffer after the solve kernel: the solution, or the rhs as
\* copied when the kernel rejected its arguments.
CUDASolved(w, rhs, err) ==
  IF err = 0 THEN Potrs(w.inst.lhs_data, rhs, w.inst.num_cols_)
  ELSE SubSeq(rhs, 1, w.inst.num_cols_)

\* The value Solve tests in "if (error != 0)": the local error, still 0, for
\* the error cell is copied to it only after the test.
CUDA32SolveTested(err) == 0

\* Solve up to the launch of the solve kernel: it returns at once when the
\* last Factorize did not succeed or the launch fails, else ("WAIT") it goes
\* on to wait for the device.
CUDADenseCholesky32Bit_SolveLaunch(w, rhs, nat) ==
  LET ops1 == <<"CopyToGpu(rhs_)", "cusolverDnDpotrs">>
  IN IF w.inst.factorize_result_ # "SUCCESS"
     THEN Ret(SetMessage(w, "Factorize did not complete succesfully previously.", 0),
              w.inst.factorize_result_, <<>>, TRUE)
     ELSE IF ~nat.launch_ok
     THEN Ret(SetMessage(w, "cuSolverDN::cusolverDnDpotrs failed.", 0),
              "FATAL_ERROR", ops1, TRUE)
     ELSE Ret(w, "WAIT", ops1, FALSE)

\* Solve from the synchronization on, in the world w the wait ends in: rhs is
\* what Solve copied to the device rhs_ buffer, ops the operations so far.
CUDADenseCholesky32Bit_SolveFinish(w, rhs, ops, nat) ==
  LET n == w.inst.num_cols_
      ops2 == ops \o SyncOps(nat.dev_ok)
      w1 == [w EXCEPT !.solution = WriteFirst(@, n, CUDASolved(w, rhs, nat.err))]
      error == CUDA32SolveTested(nat.err)
  IN IF CUDA32SyncFailed(nat.dev_ok, nat.stream_ok)
     THEN Ret(SetMessage(w, "Cuda device synchronization failed.", 0),
              "FATAL_ERROR", ops2, TRUE)
     ELSE IF error # 0
     THEN Ret(LogFatal(w1), "NONE", ops2 \o <<"CopyToHost(rhs_)">>, FALSE)
     ELSE Ret(SetMessage(w1, "Success", 0), "SUCCESS",
              ops2 \o <<"CopyToHost(rhs_)", "CopyToHost(error_)">>, TRUE)

CUDADenseCholesky32Bit_Solve(w, rhs, nat) ==
  LET l == CUDADenseCholesky32Bit_SolveLaunch(w, rhs, nat)
  IN IF l.ret # "WAIT" THEN l
     ELSE CUDADenseCholesky32Bit_SolveFinish(l.w, rhs, l.ops, nat)

(***************************************************************************)
(* CUDADenseCholesky64Bit (built with the 64-bit solver API)               *)
(***************************************************************************)
\* Factorize up to the launch of the factorization kernel: it returns at once
\* when the workspace query or the launch fails, else ("WAIT") it goes on to
\* wait for the device.
CUDADenseCholesky64Bit_FactorizeLaunch(w, num_cols, nat) ==
  LET w1 == [w EXCEPT !.inst.factorize_result_ = CUDAFactorizeReset(@),
                      !.inst.lhs_size = Reserve(@, LhsElements(num_cols)),
                      !.inst.num_cols_ = FactorizeDimension(num_cols),
                      !.inst.lhs_data = w.lhs_buf]
      ops1 == <<"Reserve(lhs_)", "CopyToGpu(lhs_)", "cusolverDnXpotrf_bufferSize">>
      w2 == [w1 EXCEPT !.inst.ws_size = Reserve(@, nat.ws)]
      ops2 == ops1 \o <<"Reserve(device_workspace_)", "cusolverDnXpotrf">>
      w3 == [w2 EXCEPT !.inst.lhs_data = PotrfOut(@, nat.fault)]
  IN IF ~nat.bufsize_ok
     THEN Ret(SetMessage(w1, "cuSolverDN::cusolverDnXpotrf_bufferSize failed.", 0),
              "FATAL_ERROR", ops1, TRUE)
     ELSE IF ~nat.launch_ok
     THEN Ret(SetMessage(w2, "cuSolverDN::cusolverDnXpotrf failed.", 0),
              "FATAL_ERROR", ops2, TRUE)
     ELSE Ret(w3, "WAIT", ops2, FALSE)

\* Factorize from the synchronization on, in the world w the wait ends in:
\* error is the error cell the kernel wrote, ops the operations made so far.
CUDADenseCholesky64Bit_FactorizeFinish(w, error, ops, nat) ==
  LET ops3 == ops \o SyncOps(nat.dev_ok)
      ops4 == ops3 \o <<"CopyToHost(error_)">>
      branch == CUDAFactorizeBranch(error)
  IN IF CUDA64SyncFailed(nat.dev_ok, nat.stream_ok)
     THEN Ret(SetMessage(w, "Cuda device synchronization failed.", 0),
              "FATAL_ERROR", ops3, TRUE)
     ELSE CASE branch = "FATAL_ERROR" ->
                 Ret(LogFatal(w), "NONE", ops4, FALSE)
            [] branch = "FAILURE" ->
                 Ret(SetMessage([w EXCEPT !.inst.factorize_result_ = "FAILURE"],
                       "cuSolverDN::cusolverDnXpotrf numerical failure. The leading minor of order %d is not positive definite.",
                       error),
                     "FAILURE", ops4, TRUE)
            [] OTHER ->
                 Ret(SetMessage([w EXCEPT !.inst.factorize_result_ = "SUCCESS"],
                                "Success", 0),
                     "SUCCESS", ops4, TRUE)

CUDADenseCholesky64Bit_Factorize(w, num_cols, nat) ==
  LET l == CUDADenseCholesky64Bit_FactorizeLaunch(w, num_cols, nat)
  IN IF l.ret # "WAIT" THEN l
     ELSE CUDADenseCholesky64Bit_FactorizeFinish(l.w, PotrfInfo(w.lhs_buf, nat.fault),
                                 l.ops, nat)

\* The value Solve tests in "if (error != 0)": the error cell, copied to the
\* host before the test.
CUDA64SolveTested(err) == err

\* Solve of the class built without the 64-bit solver API: it returns
\* LINEAR_SOLVER_FATAL_ERROR and nothing else.
CUDADenseCholesky64BitStub_Solve(w, rhs, nat) ==
  Ret(w, "FATAL_ERROR", <<>>, FALSE)

\* Solve up to the launch of the solve kernel: it returns at once when the
\* last Factorize did not succeed or the launch fails, else ("WAIT") it goes
\* on to wait for the device.
CUDADenseCholesky64Bit_SolveLaunch(w, rhs, nat) ==
  LET ops1 == <<"CopyToGpu(rhs_)", "cusolverDnXpotrs">>
  IN IF w.inst.factorize_result_ # "SUCCESS"
     THEN Ret(SetMessage(w, "Factorize did not complete succesfully previously.", 0),
              w.inst.factorize_result_, <<>>, TRUE)
     ELSE IF ~nat.launch_ok
     THEN Ret(SetMessage(w, "cuSolverDN::cusolverDnXpotrs failed.", 0),
              "FATAL_ERROR", ops1, TRUE)
     ELSE Ret(w, "WAIT", ops1, FALSE)

\* Solve from the synchronization on, in the world w the wait ends in: rhs is
\* what Solve copied to the device rhs_ buffer, ops the operations so far.
CUDADenseCholesky64Bit_SolveFinish(w, rhs, ops, nat) ==
  LET n == w.inst.num_cols_
      ops2 == ops \o SyncOps(nat.dev_ok)
      ops3 == ops2 \o <<"CopyToHost(error_)">>
      w1 == [w EXCEPT !.solution = WriteFirst(@, n, CUDASolved(w, rhs, nat.err))]
      error == CUDA64SolveTested(nat.err)
  IN IF CUDA64SyncFailed(nat.dev_ok, nat.stream_ok)
     THEN Ret(SetMessage(w, "Cuda device synchronization failed.", 0),
              "FATAL_ERROR", ops2, TRUE)
     ELSE IF error # 0
     THEN Ret(LogFatal(w), "NONE", ops3, FALSE)
     ELSE Ret(SetMessage(w1, "Success", 0), "SUCCESS",
              ops3 \o <<"CopyToHost(rhs_)">>, TRUE)

CUDADenseCholesky64Bit_Solve(w, rhs, nat) ==
  LET l == CUDADenseCholesky64Bit_SolveLaunch(w, rhs, nat)
  IN IF l.ret # "WAIT" THEN l
     ELSE CUDADenseCholesky64Bit_SolveFinish(l.w, rhs, l.ops, nat)

(***************************************************************************)
(* Init and Create of the CUDA variants (the two are written alike).       *)
(* nat.create_ok, nat.stream_ok, nat.set_ok: the status of                 *)
(* cusolverDnCreate, cudaStreamCreate and cusolverDnSetStream.             *)
(***************************************************************************)
CUDADenseCholesky_Init(nat) ==
  IF ~nat.create_ok
  THEN [ok |-> FALSE, message |-> Msg("cuSolverDN::cusolverDnCreate failed.", 0),
        ops |-> <<"cusolverDnCreate">>]
  ELSE IF ~nat.stream_ok
  THEN [ok |-> FALSE, message |-> Msg("cuSolverDN::cudaStreamCreate failed.", 0),
        ops |-> <<"cusolverDnCreate", "cudaStreamCreate", "cusolverDnDestroy">>]
  ELSE IF ~nat.set_ok
  THEN [ok |-> FALSE, message |-> Msg("cuSolverDN::cusolverDnSetStream failed.", 0),
        ops |-> <<"cusolverDnCreate", "cudaStreamCreate", "cusolverDnSetStream",
                  "cudaStreamDestroy", "cusolverDnDestroy">>]
  ELSE [ok |-> TRUE, message |-> Msg("CUDADenseCholesky64Bit::Init Success.", 0),
        ops |-> <<"cusolverDnCreate", "cudaStreamCreate", "cusolverDnSetStream",
                  "Reserve(error_)">>]

NoLLT == [info |-> "null", cols |-> 0, L |-> <<>>]

\* No instance: before Create, or Create returned nullptr.
NoInstance ==
  [kind |-> "NONE", llt_ |-> NoLLT, lhs_ |-> "nullptr", num_cols_ |-> 0,
   termination_type_ |-> "FATAL_ERROR", factorize_result_ |-> "FATAL_ERROR",
   lhs_size |-> 0, lhs_data |-> <<>>, ws_size |-> 0]

\* A freshly constructed backend: no decomposition, no lhs pointer, empty
\* device buffers, and a recorded status s0 that is not Success.
NewInstance(kind, s0) ==
  [NoInstance EXCEPT !.kind = kind,
                     !.termination_type_ = IF kind = "LAPACK" THEN s0 ELSE @,
                     !.factorize_result_ =
                        IF kind \in {"CUDA32", "CUDA64"} THEN s0 ELSE @]

\* Create of a CUDA variant, called with options of the configured type: for
\* a type other than CUDA nullptr at once (the wrong factory method); else
\* the instance if Init succeeded, else nullptr.
CUDADenseCholesky_Create(type, kind, s0, nat) ==
  IF type # "CUDA" THEN NoInstance
  ELSE IF CUDADenseCholesky_Init(nat).ok THEN NewInstance(kind, s0)
  ELSE NoInstance

\* Init of CUDADenseCholesky64Bit built without the 64-bit solver API.
CUDADenseCholesky64BitStub_Init ==
  [ok |-> FALSE,
   message |-> Msg("Cannot use CUDADenseCholesky64Bit with CUDA < 11.1.", 0),
   ops |-> <<>>]

\* Init of a GPU variant in a build.
CUDAInit(kind, build, nat) ==
  IF kind = "CUDA64" /\ build.no_64bit
  THEN CUDADenseCholesky64BitStub_Init
  ELSE CUDADenseCholesky_Init(nat)

\* cusolver_handle_ after Init: cusolverDnCreate sets it when it succeeds, and
\* nothing resets it afterwards.
HandleAfterInit(kind, build, nat) ==
  IF ~(kind = "CUDA64" /\ build.no_64bit) /\ nat.create_ok
  THEN "set" ELSE "nullptr"

\* ~CUDADenseCholesky32Bit / ~CUDADenseCholesky64Bit: the release calls made.
\* chk: which CHECK_EQ fails ("handle", "stream") or none ("pass").
CUDADenseCholesky_Destructor(handle, chk) ==
  IF handle = "nullptr" THEN <<>>
  ELSE IF chk = "handle" THEN <<"cusolverDnDestroy">>
  ELSE <<"cusolverDnDestroy", "cudaStreamDestroy">>

\* The destructor of a variant in a build (the stub's destructor is empty).
CUDADestructor(kind, build, handle, chk) ==
  IF kind = "CUDA64" /\ build.no_64bit THEN <<>>
  ELSE CUDADenseCholesky_Destructor(handle, chk)

\* Create of a GPU variant, called with options of the configured type: the
\* instance or nullptr, the native calls made (Init, and the destructor run by
\* delete when Init failed), whether a failed CHECK_EQ ended the process, and
\* the diagnostic LOG(ERROR) wrote. For a type other than CUDA it returns
\* nullptr before it constructs anything.
CUDADenseCholesky_CreateCall(type, kind, s0, nat, build) ==
  LET init == CUDAInit(kind, build, nat)
      handle == HandleAfterInit(kind, build, nat)
      del == CUDADestructor(kind, build, handle, nat.chk)
      checkFailed == del # <<>> /\ nat.chk # "pass"
  IN IF type # "CUDA"
     THEN [inst |-> NoInstance, aborted |-> FALSE, ops |-> <<>>,
           logged |-> Msg("", 0)]
     ELSE IF init.ok
     THEN [inst |-> CUDADenseCholesky_Create(type, kind, s0, nat),
           aborted |-> FALSE, ops |-> init.ops, logged |-> Msg("", 0)]
     ELSE [inst |-> NoInstance, aborted |-> checkFailed,
           ops |-> init.ops \o del,
           logged |-> IF checkFailed THEN Msg("", 0) ELSE init.message]

\* DenseCholesky_Create in which an unavailable LAPACK falls through to the
\* CUDA case (whose factory method then sees options of type LAPACK).
DenseCholesky_Create_FallThrough(type, build, kind, s0, nat) ==
  CASE type = "EIGEN" ->
         [inst |-> NewInstance("EIGEN", s0), aborted |-> FALSE, ops |-> <<>>,
          logged |-> Msg("", 0)]
    [] type = "LAPACK" /\ ~build.no_lapack ->
         [inst |-> NewInstance("LAPACK", s0), aborted |-> FALSE, ops |-> <<>>,
          logged |-> Msg("", 0)]
    [] type \in {"LAPACK", "CUDA"} /\ ~build.no_cuda ->
         CUDADenseCholesky_CreateCall(type, "CUDA32", "FATAL_ERROR", nat, build)
    [] OTHER ->
         [inst |-> NoInstance, aborted |-> TRUE, ops |-> <<>>,
          logged |-> Msg("", 0)]

\* DenseCholesky::Create: the switch on dense_linear_algebra_library_type.
\* build: which backends were compiled in. kind: the class constructed.
DenseCholesky_Create(type, build, kind, s0, nat) ==
  CASE type = "EIGEN" ->
         [inst |-> NewInstance("EIGEN", s0), aborted |-> FALSE, ops |-> <<>>,
          logged |-> Msg("", 0)]
    [] type = "LAPACK" /\ ~build.no_lapack ->
         [inst |-> NewInstance("LAPACK", s0), aborted |-> FALSE, ops |-> <<>>,
          logged |-> Msg("", 0)]
    [] type = "CUDA" /\ ~build.no_cuda ->
         CUDADenseCholesky_CreateCall(type, kind, s0, nat, build)
    [] OTHER ->
         \* LOG(FATAL): not compiled in, or an unknown type.
         [inst |-> NoInstance, aborted |-> TRUE, ops |-> <<>>,
          logged |-> Msg("", 0)]

(***************************************************************************)
(* DenseCholesky: the virtual calls and FactorAndSolve.                    *)
(***************************************************************************)
\* Factorize whose Eigen decomposition works in the caller's buffer.
Factorize_InPlace(w, num_cols, nat) ==
  CASE w.inst.kind = "EIGEN"  ->
         [EigenDenseCholesky_Factorize(w, num_cols) EXCEPT
            !.w.lhs_buf = PotrfFactor(@)]
    [] w.inst.kind = "LAPACK" -> LAPACKDenseCholesky_Factorize(w, num_cols, nat.fault)
    [] w.inst.kind = "CUDA32" -> CUDADenseCholesky32Bit_Factorize(w, num_cols, nat)
    [] w.inst.kind = "CUDA64" -> CUDADenseCholesky64Bit_Factorize(w, num_cols, nat)

Factorize(w, num_cols, nat) ==
  CASE w.inst.kind = "EIGEN"  -> EigenDenseCholesky_Factorize(w, num_cols)
    [] w.inst.kind = "LAPACK" -> LAPACKDenseCholesky_Factorize(w, num_cols, nat.fault)
    [] w.inst.kind = "CUDA32" -> CUDADenseCholesky32Bit_Factorize(w, num_cols, nat)
    [] w.inst.kind = "CUDA64" -> CUDADenseCholesky64Bit_Factorize(w, num_cols, nat)

\* Solve whose GPU variants do not test factorize_result_.
Solve_NoGuard(w, rhs, nat) ==
  CASE w.inst.kind = "EIGEN"  -> EigenDenseCholesky_Solve(w, rhs, nat.ub)
    [] w.inst.kind = "LAPACK" -> LAPACKDenseCholesky_Solve(w, rhs, nat.info)
    [] w.inst.kind = "CUDA32" ->
         CUDADenseCholesky32Bit_Solve(
           [w EXCEPT !.inst.factorize_result_ = "SUCCESS"], rhs, nat)
    [] w.inst.kind = "CUDA64" ->
         CUDADenseCholesky64Bit_Solve(
           [w EXCEPT !.inst.factorize_result_ = "SUCCESS"], rhs, nat)

Solve(w, rhs, nat) ==
  CASE w.inst.kind = "EIGEN"  -> EigenDenseCholesky_Solve(w, rhs, nat.ub)
    [] w.inst.kind = "LAPACK" -> LAPACKDenseCholesky_Solve(w, rhs, nat.info)
    [] w.inst.kind = "CUDA32" -> CUDADenseCholesky32Bit_Solve(w, rhs, nat)
    [] w.inst.kind = "CUDA64" -> CUDADenseCholesky64Bit_Solve(w, rhs, nat)

\* DenseCholesky_FactorAndSolve without the test of Factorize's status.
FactorAndSolve_NoTest(w, num_cols, rhs, fnat, snat) ==
  LET f == Factorize(w, num_cols, fnat)
      s == Solve(f.w, rhs, snat)
  IN [w |-> s.w, ret |-> s.ret, ops |-> f.ops \o s.ops,
      wrote |-> f.wrote \/ s.wrote,
      calls |-> <<"Factorize", "Solve">>, fret |-> f.ret, sret |-> s.ret]

\* calls: the virtual calls made, in order. f, s: what each handed back.
DenseCholesky_FactorAndSolve(w, num_cols, rhs, fnat, snat) ==
  LET f == Factorize(w, num_cols, fnat)
      s == Solve(f.w, rhs, snat)
  IN IF f.ret = "SUCCESS"
     THEN [w |-> s.w, ret |-> s.ret, ops |-> f.ops \o s.ops,
           wrote |-> f.wrote \/ s.wrote,
           calls |-> <<"Factorize", "Solve">>, fret |-> f.ret, sret |-> s.ret]
     ELSE [w |-> f.w, ret |-> f.ret, ops |-> f.ops, wrote |-> f.wrote,
           calls |-> <<"Factorize">>, fret |-> f.ret, sret |-> "NONE"]

(***************************************************************************)
(* The state machine: one caller, one backend instance.                    *)
(***************************************************************************)
VARIABLES
  inst,           \* the backend instance (NoInstance when there is none)
  lhs_buf,        \* the caller's lhs buffer
  solution,       \* the caller's solution buffer
  message,        \* the caller's diagnostic string
  aborted,        \* the process has ended in LOG(FATAL) or a crash
  last,           \* the most recent call: its inputs, what it handed back,
                  \* and the state it started from
  lastFactorize,  \* status returned by the most recent Factorize ("NONE":
                  \* there was none, or it did not return)
  factored,       \* the matrix passed to the most recent Factorize
  prevRhs,        \* the rhs of the Solve before the most recent call, <<>> if
                  \* that call was not a Solve of the current factorization
  prevFactorize,  \* status returned by the Factorize before the most recent
                  \* one ("NONE": as lastFactorize)
  res,            \* the solver handle and the stream of the instance: whether
                  \* each was acquired, and how often each was released
  lhsRewritten,   \* the caller has written to its lhs buffer since the most
                  \* recent Factorize returned
  elems,          \* the element count of a GPU Factorize taken by itself: the
                  \* num_cols passed, the count computed, and how it ended
  pair            \* two instances, each with a caller and buffers of its own:
                  \* their worlds, the worlds each has when its calls are run
                  \* alone, and the most recent call

vars == <<inst, lhs_buf, solution, message, aborted, last, lastFactorize,
          factored, prevRhs, prevFactorize, res, lhsRewritten, elems,
          pair>>

Kinds == {"EIGEN", "LAPACK", "CUDA32", "CUDA64"}
CUDAKinds == {"CUDA32", "CUDA64"}
UBOutcomes == {"crash", "failure", "success"}

FNat0 == [fault |-> 0, bufsize_ok |-> TRUE, ws |-> 1, launch_ok |-> TRUE,
          dev_ok |-> TRUE, stream_ok |-> TRUE]
SNat0 == [info |-> 0, ub |-> "crash", launch_ok |-> TRUE, dev_ok |-> TRUE,
          stream_ok |-> TRUE, err |-> 0]
INat0 == [create_ok |-> TRUE, stream_ok |-> TRUE, set_ok |-> TRUE,
          chk |-> "pass"]
\* The destructor's calls on a handle and a stream that Init has already
\* released or never acquired are undefined: either CHECK_EQ may fail.
CheckOutcomes == {"pass", "handle", "stream"}

\* The configured dense_linear_algebra_library_type ("OTHER": any value that
\* is none of the three), and the builds: all backends compiled in, or one
\* missing.
Types == {"EIGEN", "LAPACK", "CUDA", "OTHER"}
Build0 == [no_lapack |-> FALSE, no_cuda |-> FALSE, no_64bit |-> FALSE]
Builds ==
  {Build0, [Build0 EXCEPT !.no_lapack = TRUE], [Build0 EXCEPT !.no_cuda = TRUE],
   [Build0 EXCEPT !.no_64bit = TRUE]}

\* The native outcomes a Factorize of this backend can meet: every native
\* call behaves, or one of them does not.
FNats(kind) ==
  CASE kind = "EIGEN"  -> {FNat0}
    [] kind = "LAPACK" -> {[FNat0 EXCEPT !.fault = f] : f \in FaultCodes}
    [] OTHER ->
         {[FNat0 EXCEPT !.ws = n] : n \in 1..MaxWs}
         \cup {[FNat0 EXCEPT !.fault = f] : f \in FaultCodes}
         \cup {[FNat0 EXCEPT !.bufsize_ok = FALSE],
               [FNat0 EXCEPT !.launch_ok = FALSE],
               [FNat0 EXCEPT !.dev_ok = FALSE],
               [FNat0 EXCEPT !.stream_ok = FALSE]}

\* The native outcomes a Solve on instance i can meet (none is consulted when
\* Solve returns at once).
SNats(i) ==
  CASE i.kind = "EIGEN" ->
         IF i.llt_.info = "null"
         THEN {[SNat0 EXCEPT !.ub = u] : u \in UBOutcomes} ELSE {SNat0}
    [] i.kind = "LAPACK" ->
         \* dpotrs_ rejects the arguments of an instance that has no lhs yet.
         {[SNat0 EXCEPT !.info = k] :
            k \in IF i.lhs_ = "nullptr" THEN {c \in SolveCodes : c < 0}
                  ELSE SolveCodes}
    [] OTHER ->
         IF i.factorize_result_ # "SUCCESS" THEN {SNat0}
         ELSE {[SNat0 EXCEPT !.err = k] : k \in SolveCodes}
              \cup {[SNat0 EXCEPT !.launch_ok = FALSE],
                    [SNat0 EXCEPT !.dev_ok = FALSE],
                    [SNat0 EXCEPT !.stream_ok = FALSE]}

INats(kind) ==
  IF kind \in CUDAKinds
  THEN {x \in [create_ok : BOOLEAN, stream_ok : BOOLEAN, set_ok : BOOLEAN,
               chk : CheckOutcomes] :
          /\ ~x.create_ok => x.stream_ok
          /\ ~(x.create_ok /\ x.stream_ok) => x.set_ok
          /\ (x.stream_ok /\ x.set_ok) => x.chk = "pass"}
  ELSE {INat0}

\* The classes Create constructs for a configured type.
KindsOf(type) ==
  CASE type = "EIGEN"  -> {"EIGEN"}
    [] type = "LAPACK" -> {"LAPACK"}
    [] type = "CUDA"   -> CUDAKinds
    [] OTHER           -> {"NONE"}

Count(seq, x) == Cardinality({i \in 1..Len(seq) : seq[i] = x})

\* Handle and stream of the instance under construction: acquired by the
\* native calls ops made with the outcomes nat, and the release calls in ops.
Resources(ops, nat) ==
  [handle_acq |-> Contains(ops, "cusolverDnCreate") /\ nat.create_ok,
   stream_acq |-> Contains(ops, "cudaStreamCreate") /\ nat.stream_ok,
   handle_rel |-> Count(ops, "cusolverDnDestroy"),
   stream_rel |-> Count(ops, "cudaStreamDestroy")]

\* What the caller's lhs buffer holds once the caller has reused it: the
\* identity matrix of the dimension of buf.
Overwritten(buf) == [i \in 1..Len(buf) |-> 1]

World ==
  [inst |-> inst, lhs_buf |-> lhs_buf, solution |-> solution,
   message |-> message, aborted |-> aborted]

\* The FactorizationState an instance records.
RecordedState(i) ==
  CASE i.kind = "EIGEN"    -> i.llt_.info
    [] i.kind = "LAPACK"   -> i.termination_type_
    [] i.kind \in CUDAKinds -> i.factorize_result_
    [] OTHER               -> "NONE"

NoCall ==
  [op |-> "None", lhs |-> <<>>, rhs |-> <<>>, fnat |-> FNat0, snat |-> SNat0,
   ret |-> "NONE", ops |-> <<>>, wrote |-> FALSE, calls |-> <<>>,
   fret |-> "NONE", sret |-> "NONE",
   type |-> "NONE", build |-> Build0, kind |-> "NONE", inat |-> INat0,
   logged |-> Msg("", 0)]

Commit(w) ==
  /\ inst' = w.inst
  /\ lhs_buf' = w.lhs_buf
  /\ solution' = w.solution
  /\ message' = w.message
  /\ aborted' = w.aborted

NoElems == [num_cols |-> 0, count |-> 0, outcome |-> "idle"]

\* A caller that has no instance yet, with its buffers.
NoWorld ==
  [inst |-> NoInstance, lhs_buf |-> <<>>, solution |-> Zeros,
   message |-> Msg("", 0), aborted |-> FALSE]

\* No call of the caller waits for the device.
NoPending ==
  [op |-> "None", rhs |-> <<>>, nat |-> FNat0, error |-> 0, ops |-> <<>>,
   aret |-> "NONE"]

NoPair ==
  [ws |-> <<NoWorld, NoWorld>>, alone |-> <<NoWorld, NoWorld>>, who |-> 0,
   op |-> "None", ret |-> "NONE", aret |-> "NONE", calls |-> <<0, 0>>,
   pend |-> <<NoPending, NoPending>>,
   dev |-> <<FALSE, FALSE>>, hit |-> <<FALSE, FALSE>>]

Init ==
  /\ inst = NoInstance
  /\ lhs_buf = <<>>
  /\ solution = Zeros
  /\ message = Msg("", 0)
  /\ aborted = FALSE
  /\ last = NoCall
  /\ lastFactorize = "NONE"
  /\ factored = <<>>
  /\ prevRhs = <<>>
  /\ prevFactorize = "NONE"
  /\ res = Resources(<<>>, INat0)
  /\ lhsRewritten = FALSE
  /\ elems = NoElems
  /\ pair = NoPair

\* DenseCholesky::Create for a configured type in a build. (The class, the
\* recorded status and the native outcomes are not enumerated when Create
\* does not get to construct.)
Create ==
  /\ ~aborted
  /\ inst.kind = "NONE"
  /\ \E type \in Types : \E build \in Builds :
       \E built \in {\/ type = "EIGEN"
                     \/ type = "LAPACK" /\ ~build.no_lapack
                     \/ type = "CUDA" /\ ~build.no_cuda} :
       \E kind \in (IF built THEN KindsOf(type) ELSE {"NONE"}) :
       \E s0 \in (IF built /\ type # "EIGEN" THEN NonSuccess ELSE {"FATAL_ERROR"}) :
       \E nat \in INats(kind) :
       \E r \in {DenseCholesky_Create(type, build, kind, s0, nat)} :
          /\ inst' = r.inst
          /\ aborted' = r.aborted
          /\ res' = Resources(r.ops, nat)
          /\ last' = [NoCall EXCEPT
                        !.op = "Create", !.ops = r.ops, !.type = type,
                        !.build = build, !.kind = kind, !.inat = nat,
                        !.logged = r.logged]
  /\ UNCHANGED <<lhs_buf, solution, message, lastFactorize, factored,
                 prevRhs, prevFactorize, lhsRewritten, elems, pair>>

\* The caller destroys the instance: the unique_ptr Create returned goes away.
\* (A build that constructed a GPU instance has the solver API of its class.)
Destroy ==
  /\ ~aborted
  /\ inst.kind \in Kinds
  /\ \E ops \in {IF inst.kind \in CUDAKinds
                  THEN CUDADenseCholesky_Destructor("set", "pass") ELSE <<>>} :
       /\ res' = [res EXCEPT
                    !.handle_rel = @ + Count(ops, "cusolverDnDestroy"),
                    !.stream_rel = @ + Count(ops, "cudaStreamDestroy")]
       /\ last' = [NoCall EXCEPT !.op = "Destroy", !.ops = ops,
                                 !.kind = inst.kind]
  /\ inst' = [NoInstance EXCEPT !.kind = "GONE"]
  /\ UNCHANGED <<lhs_buf, solution, message, aborted, lastFactorize, factored,
                 prevRhs, prevFactorize, lhsRewritten, elems, pair>>

\* The caller fills its lhs buffer with a matrix and calls Factorize.
DoFactorize ==
  /\ ~aborted
  /\ inst.kind \in Kinds
  /\ \E a \in Matrices : \E nat \in FNats(inst.kind) :
       \E r \in {Factorize([World EXCEPT !.lhs_buf = a, !.solution = Zeros], Len(a), nat)} :
          /\ Commit(r.w)
          /\ last' = [NoCall EXCEPT
                        !.op = "Factorize", !.lhs = a, !.fnat = nat,
                        !.ret = r.ret, !.ops = r.ops, !.wrote = r.wrote,
                        !.calls = <<"Factorize">>, !.fret = r.ret]
          /\ lastFactorize' = r.ret
          /\ factored' = a
          /\ prevRhs' = <<>>
          /\ prevFactorize' = lastFactorize
          /\ UNCHANGED res
          /\ lhsRewritten' = FALSE
          /\ UNCHANGED <<elems, pair>>

\* The caller calls Solve with a right-hand side.
DoSolve ==
  /\ ~aborted
  /\ inst.kind \in Kinds
  /\ \E rhs \in RhsVectors : \E nat \in SNats(inst) :
       \E r \in {Solve(World, rhs, nat)} :
          /\ Commit(r.w)
          /\ last' = [NoCall EXCEPT
                        !.op = "Solve", !.rhs = rhs, !.snat = nat,
                        !.ret = r.ret, !.ops = r.ops, !.wrote = r.wrote,
                        !.calls = <<"Solve">>, !.sret = r.ret]
  /\ prevRhs' = IF Contains(last.calls, "Solve") THEN last.rhs ELSE <<>>
  /\ UNCHANGED <<lastFactorize, factored, prevFactorize, res, lhsRewritten,
                 elems, pair>>

\* The caller fills its lhs buffer and calls FactorAndSolve, with a matrix of
\* the largest dimension and one rhs (dimension and rhs vary over the
\* Factorize and Solve calls). The natives of Solve are not enumerated when
\* Solve is not reached.
DoFactorAndSolve ==
  /\ ~aborted
  /\ inst.kind \in Kinds
  /\ \E a \in {m \in Matrices : Len(m) = MaxN} : \E fnat \in FNats(inst.kind) :
       \E w0 \in {[World EXCEPT !.lhs_buf = a, !.solution = Zeros]} :
       \E f \in {Factorize(w0, Len(a), fnat)} :
       \E reached \in {f.ret = "SUCCESS"} :
          \E rhs \in {CHOOSE v \in RhsVectors : TRUE} :
          \E snat \in (IF reached THEN SNats(f.w.inst) ELSE {SNat0}) :
            \E r \in {DenseCholesky_FactorAndSolve(w0, Len(a), rhs, fnat, snat)} :
               /\ Commit(r.w)
               /\ last' = [NoCall EXCEPT
                             !.op = "FactorAndSolve", !.lhs = a, !.rhs = rhs,
                             !.fnat = fnat, !.snat = snat,
                             !.ret = r.ret, !.ops = r.ops, !.wrote = r.wrote,
                             !.calls = r.calls, !.fret = r.fret,
                             !.sret = r.sret]
               /\ lastFactorize' = r.fret
               /\ factored' = a
               /\ prevRhs' = <<>>
               /\ prevFactorize' = lastFactorize
               /\ UNCHANGED res
               /\ lhsRewritten' = FALSE
               /\ UNCHANGED <<elems, pair>>

\* Once a Factorize has returned Success, the caller reuses its lhs buffer:
\* it writes the identity matrix of the same dimension to it.
CallerRewritesLhs ==
  /\ ~aborted
  /\ inst.kind \in Kinds
  /\ last.op = "Factorize"
  /\ lastFactorize = "SUCCESS"
  /\ ~lhsRewritten
  /\ lhs_buf' = Overwritten(lhs_buf)
  /\ lhsRewritten' = TRUE
  /\ last' = [NoCall EXCEPT !.op = "RewriteLhs"]
  /\ prevRhs' = <<>>
  /\ UNCHANGED <<inst, solution, message, aborted, lastFactorize, factored,
                 prevFactorize, res, elems, pair>>

Next ==
  \/ Create \/ DoFactorize \/ DoSolve \/ DoFactorAndSolve \/ Destroy
  \/ CallerRewritesLhs

Spec == Init /\ [][Next]_vars

(***************************************************************************)
(* The element count of a GPU Factorize, taken by itself: the caller passes *)
(* a num_cols and Factorize computes num_cols * num_cols for lhs_.Reserve   *)
(* and lhs_.CopyToGpu.                                                      *)
(***************************************************************************)
\* The dimensions tried: small ones, those around the largest whose square
\* fits an int, 2^16 (whose square is 2^32) and its neighbours, and the
\* largest int.
NumCols ==
  (0..MaxSpread)
  \cup ((46340 - MaxSpread)..(46340 + MaxSpread))
  \cup {65535, 65536, 65537, 2147483647}

\* A caller about to call Factorize with some num_cols.
ElemsStart ==
  /\ inst = NoInstance /\ lhs_buf = <<>> /\ solution = Zeros
  /\ message = Msg("", 0) /\ aborted = FALSE /\ last = NoCall
  /\ lastFactorize = "NONE" /\ factored = <<>> /\ prevRhs = <<>>
  /\ prevFactorize = "NONE" /\ res = Resources(<<>>, INat0)
  /\ lhsRewritten = FALSE
  /\ pair = NoPair
  /\ elems \in {[num_cols |-> n, count |-> 0, outcome |-> "called"] :
                  n \in NumCols}

\* lhs_.Reserve(num_cols * num_cols): the count is computed.
ComputeLhsElements ==
  /\ elems.outcome = "called"
  /\ \E o \in IntMulOutcomes(elems.num_cols, elems.num_cols) :
       elems' = [elems EXCEPT
                   !.count = IF o = "trapped" THEN 0
                             ELSE LhsElements(elems.num_cols),
                   !.outcome = o]
  /\ UNCHANGED <<inst, lhs_buf, solution, message, aborted, last,
                 lastFactorize, factored, prevRhs, prevFactorize, res,
                 lhsRewritten, pair>>

NextElems == ComputeLhsElements

SpecElems == ElemsStart /\ [][NextElems]_vars

(***************************************************************************)
(* Two instances. Each has a caller of its own, with its own lhs, rhs and   *)
(* solution buffers and message; the callers' calls interleave. A call on a *)
(* GPU variant that has launched its kernel waits for the device, and calls *)
(* of the other caller run during the wait. The callers share the process,  *)
(* which a LOG(FATAL) in a call of either ends, and the device, which       *)
(* cudaDeviceSynchronize() waits for as a whole. pair.ws are the two        *)
(* worlds, pair.pend the calls that wait, pair.dev[k] says that a task of   *)
(* instance k has failed on the device, pair.hit[k] that a synchronization  *)
(* of instance k has reported a failed task of the other instance;          *)
(* pair.alone are the worlds each instance has when the same calls are made *)
(* on it with no other instance around (a whole call at a time, so ahead of *)
(* pair.ws while the call waits).                                           *)
(***************************************************************************)
\* The worlds after a step of a call on instance i that led to world w: a
\* member function acts on the members of its own instance and on the buffers
\* its caller passed.
AfterCallOn(ws, i, w) == [ws EXCEPT ![i] = w]

\* Factorize up to the wait for the device; the CPU backends do not wait.
FactorizeLaunch(w, num_cols, nat) ==
  CASE w.inst.kind = "CUDA32" ->
         CUDADenseCholesky32Bit_FactorizeLaunch(w, num_cols, nat)
    [] w.inst.kind = "CUDA64" ->
         CUDADenseCholesky64Bit_FactorizeLaunch(w, num_cols, nat)
    [] OTHER -> Factorize(w, num_cols, nat)

FactorizeFinish(w, error, ops, nat) ==
  CASE w.inst.kind = "CUDA32" ->
         CUDADenseCholesky32Bit_FactorizeFinish(w, error, ops, nat)
    [] w.inst.kind = "CUDA64" ->
         CUDADenseCholesky64Bit_FactorizeFinish(w, error, ops, nat)

\* Solve up to the wait for the device; the CPU backends do not wait.
SolveLaunch(w, rhs, nat) ==
  CASE w.inst.kind = "CUDA32" -> CUDADenseCholesky32Bit_SolveLaunch(w, rhs, nat)
    [] w.inst.kind = "CUDA64" -> CUDADenseCholesky64Bit_SolveLaunch(w, rhs, nat)
    [] OTHER -> Solve(w, rhs, nat)

SolveFinish(w, rhs, ops, nat) ==
  CASE w.inst.kind = "CUDA32" ->
         CUDADenseCholesky32Bit_SolveFinish(w, rhs, ops, nat)
    [] w.inst.kind = "CUDA64" ->
         CUDADenseCholesky64Bit_SolveFinish(w, rhs, ops, nat)

\* The native outcomes of the Init of a Create in the pair: it succeeds, or
\* cusolverDnCreate fails.
PairINats(kind) ==
  IF kind \in CUDAKinds THEN {INat0, [INat0 EXCEPT !.create_ok = FALSE]}
  ELSE {INat0}

\* The classes the callers of the pair construct: the first the Reference
\* backend or the 64-bit GPU variant, the second the Vendor backend or the
\* 32-bit GPU variant.
PairKinds(i) == IF i = 1 THEN {"EIGEN", "CUDA64"} ELSE {"LAPACK", "CUDA32"}

\* The library type in the options a caller of the pair hands to the factory
\* method of a GPU variant: CUDA or another one. The CPU backends are
\* constructed without a factory method.
PairTypes(kind) == IF kind \in CUDAKinds THEN {"CUDA", "LAPACK"} ELSE {"NONE"}

\* The inputs of the calls in the pair: a positive definite matrix of the
\* least and of the greatest dimension and one that is not positive definite;
\* native calls that behave, a workspace query that fails, a kernel whose
\* task fails on the device, or a solve kernel that reports a bad argument;
\* one rhs.
PairMatrices == {MatrixOf(1, 0), MatrixOf(MaxN, 0), MatrixOf(1, 1)}
PairFNats(kind) ==
  {x \in FNats(kind) :
     x.fault = 0 /\ x.ws = 1 /\ x.launch_ok /\ x.stream_ok}
PairSNats(i) ==
  {x \in SNats(i) :
     /\ x.info <= 0 /\ x.err <= 0 /\ x.ub # "success"
     /\ x.launch_ok /\ x.stream_ok}
PairRhs == {CHOOSE v \in RhsVectors : TRUE}

\* What cudaDeviceSynchronize() in a call of instance i, whose own task gives
\* own_ok, may report: the call names no stream, so it waits for the tasks of
\* every stream of the device, and when a task of the other instance has
\* failed it may report that failure (TRUE) instead of own_ok.
DeviceSyncSees(i, own_ok) ==
  IF own_ok /\ pair.dev[3 - i] THEN {FALSE, TRUE} ELSE {FALSE}

\* The instance Create hands to a caller of the pair.
PairCreated(type, kind, nat) ==
  IF kind \in CUDAKinds
  THEN CUDADenseCholesky_Create(type, kind, "FATAL_ERROR", nat)
  ELSE NewInstance(kind, "FATAL_ERROR")

PairStart ==
  /\ inst = NoInstance /\ lhs_buf = <<>> /\ solution = Zeros
  /\ message = Msg("", 0) /\ aborted = FALSE /\ last = NoCall
  /\ lastFactorize = "NONE" /\ factored = <<>> /\ prevRhs = <<>>
  /\ prevFactorize = "NONE" /\ res = Resources(<<>>, INat0)
  /\ lhsRewritten = FALSE
  /\ elems = NoElems
  /\ pair = NoPair

\* No LOG(FATAL) has ended the process.
PairRunning == \A k \in 1..2 : ~pair.ws[k].aborted

\* Caller i, whose last call has returned, may make another call.
PairMayCall(i) ==
  /\ PairRunning
  /\ pair.pend[i].op = "None"
  /\ pair.calls[i] < MaxCalls

PairUnchanged ==
  UNCHANGED <<inst, lhs_buf, solution, message, aborted, last, lastFactorize,
              factored, prevRhs, prevFactorize, res, lhsRewritten, elems>>

\* The pair after the call of caller i that led its world to w, and the world
\* it has alone to a, returning ret and aret.
PairAfter(i, op, w, a, ret, aret) ==
  [ws |-> AfterCallOn(pair.ws, i, w),
   alone |-> [pair.alone EXCEPT ![i] = a],
   who |-> i, op |-> op, ret |-> ret, aret |-> aret,
   calls |-> [pair.calls EXCEPT ![i] = @ + 1],
   pend |-> pair.pend, dev |-> pair.dev, hit |-> pair.hit]

\* The pair after the call of caller i has launched its kernel, leading its
\* world to w, and waits: p is what the rest of the call works with. The
\* kernel's task is on the device, failed when the device synchronization of
\* the call alone reports a failure.
PairWaiting(i, op, w, a, p) ==
  [ws |-> AfterCallOn(pair.ws, i, w),
   alone |-> [pair.alone EXCEPT ![i] = a],
   who |-> i, op |-> op, ret |-> "WAIT", aret |-> "WAIT",
   calls |-> [pair.calls EXCEPT ![i] = @ + 1],
   pend |-> [pair.pend EXCEPT ![i] = p],
   dev |-> [pair.dev EXCEPT ![i] = @ \/ ~p.nat.dev_ok],
   hit |-> pair.hit]

\* Caller i creates its instance.
PairCreate ==
  /\ \E i \in 1..2 :
       /\ PairMayCall(i)
       /\ pair.ws[i].inst.kind = "NONE"
       /\ \E kind \in PairKinds(i) : \E type \in PairTypes(kind) :
            \E nat \in PairINats(kind) :
            \E made \in {PairCreated(type, kind, nat)} :
              pair' = PairAfter(i, "Create",
                                [pair.ws[i] EXCEPT !.inst = made],
                                [pair.alone[i] EXCEPT !.inst = made],
                                made.kind, made.kind)
  /\ PairUnchanged

\* Caller i fills its lhs buffer and calls Factorize on its instance: the
\* call returns, or it launches the kernel and waits for the device.
PairFactorize ==
  /\ \E i \in 1..2 :
       /\ PairMayCall(i)
       /\ pair.ws[i].inst.kind \in Kinds
       /\ \E a \in PairMatrices : \E nat \in PairFNats(pair.ws[i].inst.kind) :
            \E l \in {FactorizeLaunch([pair.ws[i] EXCEPT !.lhs_buf = a,
                                                          !.solution = Zeros],
                                       Len(a), nat)} :
            \E ra \in {Factorize([pair.alone[i] EXCEPT !.lhs_buf = a,
                                                        !.solution = Zeros],
                                  Len(a), nat)} :
              pair' = IF l.ret = "WAIT"
                      THEN PairWaiting(i, "FactorizeWait", l.w, ra.w,
                             [op |-> "Factorize", rhs |-> <<>>, nat |-> nat,
                              error |-> PotrfInfo(a, nat.fault),
                              ops |-> l.ops, aret |-> ra.ret])
                      ELSE PairAfter(i, "Factorize", l.w, ra.w, l.ret, ra.ret)
  /\ PairUnchanged

\* Caller i calls Solve on its instance: the call returns, or it launches the
\* kernel and waits for the device.
PairSolve ==
  /\ \E i \in 1..2 :
       /\ PairMayCall(i)
       /\ pair.ws[i].inst.kind \in Kinds
       /\ \E rhs \in PairRhs : \E nat \in PairSNats(pair.ws[i].inst) :
            \E l \in {SolveLaunch(pair.ws[i], rhs, nat)} :
            \E ra \in {Solve(pair.alone[i], rhs, nat)} :
              pair' = IF l.ret = "WAIT"
                      THEN PairWaiting(i, "SolveWait", l.w, ra.w,
                             [op |-> "Solve", rhs |-> rhs, nat |-> nat,
                              error |-> nat.err, ops |-> l.ops,
                              aret |-> ra.ret])
                      ELSE PairAfter(i, "Solve", l.w, ra.w, l.ret, ra.ret)
  /\ PairUnchanged

\* The device has finished the kernel of caller i's call: the call goes on
\* from its synchronization, whose device-wide half may report a failed task
\* of the other instance, in the world the other caller's calls left, and
\* returns.
PairReturn ==
  /\ PairRunning
  /\ \E i \in 1..2 :
       /\ pair.pend[i].op # "None"
       /\ \E p \in {pair.pend[i]} :
          \E seen \in DeviceSyncSees(i, p.nat.dev_ok) :
          \E nat \in {[p.nat EXCEPT !.dev_ok = @ /\ ~seen]} :
          \E r \in {IF p.op = "Factorize"
                    THEN FactorizeFinish(pair.ws[i], p.error, p.ops, nat)
                    ELSE SolveFinish(pair.ws[i], p.rhs, p.ops, nat)} :
            pair' = [ws |-> AfterCallOn(pair.ws, i, r.w),
                     alone |-> pair.alone,
                     who |-> i, op |-> p.op, ret |-> r.ret, aret |-> p.aret,
                     calls |-> pair.calls,
                     pend |-> [pair.pend EXCEPT ![i] = NoPending],
                     dev |-> pair.dev,
                     hit |-> [pair.hit EXCEPT ![i] = @ \/ seen]]
  /\ PairUnchanged

NextPair == PairCreate \/ PairFactorize \/ PairSolve \/ PairReturn

SpecPair == PairStart /\ [][NextPair]_vars

(***************************************************************************)
(* Properties.                                                             *)
(***************************************************************************)
\* The status code the native factorization of the most recent Factorize
\* produced (dpotrf's info, the device error cell).
FactorizeCode == PotrfInfo(last.lhs, last.fnat.fault)

\* The call ended in the fatal escalation: LOG(FATAL), or a FATAL_ERROR return.
EscalatedFatal == aborted \/ last.ret = "FATAL_ERROR"

\* The solution buffer that solves factored * x = rhs exactly in its first
\* Len(factored) elements and is as the caller handed it in the others.
IsSolutionOf(x, a, b) ==
  /\ Len(x) = MaxN
  /\ \A i \in 1..MaxN : IF i <= Len(a) THEN a[i] * x[i] = b[i] ELSE x[i] = 0

\* C1: on every backend, a Solve called while the last Factorize did not
\* return Success (or there was none) returns exactly Failure, writes the
\* diagnostic and performs no computation (no native operation, solution
\* buffer as before).
C1_SolveUnfactorizedIsFailure ==
  [][(last'.op = "Solve" /\ lastFactorize # "SUCCESS")
       => /\ last'.ret = "FAILURE"
          /\ last'.wrote
          /\ last'.ops = <<>>
          /\ solution' = solution]_vars

\* C2: on every backend, a Solve made before any Factorize or after a
\* Factorize that returned Failure returns a non-Success status and leaves
\* every element of the solution buffer as it was before the call.
C2_SolveUnfactorizedKeepsSolution ==
  [][(last'.op = "Solve" /\ lastFactorize \in {"NONE", "FAILURE"})
       => /\ last'.ret # "SUCCESS"
          /\ solution' = solution]_vars

\* C3: a Solve call, whatever it returns, leaves the recorded
\* FactorizationState (termination_type_, factorize_result_, the Eigen
\* decomposition status) exactly as it was before the call.
C3_SolveKeepsRecordedState ==
  [][last'.op = "Solve" => RecordedState(inst') = RecordedState(inst)]_vars

\* The most recent call is a Factorize of the Vendor or a GPU backend that
\* got to classify the status code of the native factorization.
FactorizeClassified ==
  /\ last.op = "Factorize"
  /\ \/ inst.kind = "LAPACK"
     \/ inst.kind \in CUDAKinds /\ Contains(last.ops, "CopyToHost(error_)")

\* C4: on the Vendor backend and both GPU variants Factorize classifies the
\* status code k of the native factorization: k < 0 is escalated as fatal
\* (LOG(FATAL), with FATAL_ERROR recorded), k = 0 returns Success, k > 0
\* returns Failure with a diagnostic naming k; nothing else happens for any k.
C4_FactorizeClassification ==
  FactorizeClassified =>
    /\ FactorizeCode < 0 =>
         aborted /\ last.ret = "NONE" /\ RecordedState(inst) = "FATAL_ERROR"
    /\ FactorizeCode = 0 =>
         ~aborted /\ last.ret = "SUCCESS" /\ RecordedState(inst) = "SUCCESS"
    /\ FactorizeCode > 0 =>
         /\ ~aborted /\ last.ret = "FAILURE"
         /\ RecordedState(inst) = "FAILURE"
         /\ last.wrote /\ message.arg = FactorizeCode

\* diag(1, -1) on a GPU backend: Failure naming the leading minor of order 2.
C4_Witness ==
  /\ FactorizeClassified
  /\ inst.kind \in CUDAKinds
  /\ last.lhs = <<1, -1>>
  /\ last.ret = "FAILURE"
  /\ message.arg = 2

\* The native operations of a Solve.
SolveOps ==
  {"solve", "copy_n", "dpotrs_", "CopyToGpu(rhs_)", "cusolverDnDpotrs",
   "cusolverDnXpotrs", "CopyToHost(rhs_)"}

\* C5: FactorAndSolve calls Factorize exactly once; if Factorize returns
\* Failure or FatalError (or does not return), Solve is never called and
\* FactorAndSolve returns that same status; if Factorize returns Success,
\* Solve is called exactly once and FactorAndSolve returns Solve's status.
C5_FactorAndSolveShortCircuits ==
  last.op = "FactorAndSolve" =>
    /\ last.calls # <<>> /\ last.calls[1] = "Factorize"
    /\ \A i \in 1..Len(last.calls) : i > 1 => last.calls[i] # "Factorize"
    /\ last.fret # "SUCCESS" =>
         /\ last.calls = <<"Factorize">>
         /\ last.ret = last.fret
         /\ \A i \in 1..Len(last.ops) : last.ops[i] \notin SolveOps
         /\ solution = Zeros
    /\ last.fret = "SUCCESS" =>
         /\ last.calls = <<"Factorize", "Solve">>
         /\ last.ret = last.sret

\* FactorAndSolve on a matrix that is not positive definite: Failure, without
\* a Solve.
C5_Witness ==
  /\ last.op = "FactorAndSolve"
  /\ last.fret = "FAILURE"
  /\ last.ret = "FAILURE"
  /\ last.calls = <<"Factorize">>

\* The most recent call is a Factorize or Solve of a GPU variant whose device
\* or stream synchronization reported failure.
SyncReportedFailure ==
  /\ inst.kind \in CUDAKinds
  /\ Contains(last.ops, "cudaDeviceSynchronize")
  /\ \/ last.op = "Factorize" /\ (~last.fnat.dev_ok \/ ~last.fnat.stream_ok)
     \/ last.op = "Solve" /\ (~last.snat.dev_ok \/ ~last.snat.stream_ok)

\* C6: in both GPU variants, a Factorize or Solve whose device or stream
\* synchronization reports failure returns FatalError, and such a Factorize
\* does not record FactorizeSucceeded.
C6_SyncFailureIsFatal ==
  SyncReportedFailure =>
    /\ last.ret = "FATAL_ERROR"
    /\ last.op = "Factorize" => inst.factorize_result_ # "SUCCESS"

\* The most recent call is a GPU Solve that issued the triangular-solve kernel.
SolveKernelIssued ==
  /\ inst.kind \in CUDAKinds
  /\ last.op = "Solve"
  /\ last.snat.launch_ok
  /\ \/ Contains(last.ops, "cusolverDnDpotrs")
     \/ Contains(last.ops, "cusolverDnXpotrs")

\* C7: in both GPU variants, a Solve that reaches the solve kernel returns
\* Success only if the error cell that kernel wrote is zero, and a negative
\* error cell is escalated as fatal.
C7_SolveClassifiesErrorCell ==
  SolveKernelIssued =>
    /\ last.ret = "SUCCESS" => last.snat.err = 0
    /\ last.snat.err < 0 => EscalatedFatal

\* C8: on the Vendor backend, Solve classifies the code k of dpotrs as
\* Factorize does: k < 0 is escalated as fatal, k = 0 returns Success, k > 0
\* returns Failure; Solve never returns Success when k is not zero.
C8_LAPACKSolveClassification ==
  (inst.kind = "LAPACK" /\ last.op = "Solve") =>
    /\ last.snat.info < 0 => EscalatedFatal
    /\ last.snat.info = 0 => last.ret = "SUCCESS"
    /\ last.snat.info > 0 => last.ret = "FAILURE"
    /\ last.ret = "SUCCESS" => last.snat.info = 0

\* The native solve step of the most recent Solve reported no error.
SolveStepClean ==
  /\ last.snat.info = 0
  /\ last.snat.launch_ok /\ last.snat.dev_ok /\ last.snat.stream_ok
  /\ last.snat.err = 0

\* C9: after a Factorize that returned Success, every Solve of the Solve
\* calls that follow it (the caller doing nothing else in between) whose
\* native solve step reports no error returns Success; its solution is the
\* one of the factorized matrix and this call's rhs, whatever Solve calls came
\* before; and the instance still records FactorizeSucceeded.
C9_SolveReusesFactorization ==
  (/\ last.op = "Solve" /\ lastFactorize = "SUCCESS" /\ SolveStepClean
   /\ ~lhsRewritten) =>
    /\ last.ret = "SUCCESS"
    /\ IsSolutionOf(solution, factored, last.rhs)
    /\ RecordedState(inst) \in {"SUCCESS", "Success"}

\* A second Solve of one factorization, with another rhs than the first.
C9_Witness ==
  /\ last.op = "Solve" /\ lastFactorize = "SUCCESS" /\ SolveStepClean
  /\ ~lhsRewritten
  /\ prevRhs # <<>> /\ prevRhs # last.rhs
  /\ last.ret = "SUCCESS"
  /\ Len(factored) = MaxN

\* The step is a GPU Factorize (alone or in FactorAndSolve) for n columns.
GPUFactorizeStep(n) ==
  /\ inst.kind \in CUDAKinds
  /\ last'.op \in {"Factorize", "FactorAndSolve"}
  /\ n = Len(last'.lhs)

\* C10: over any sequence of GPU Factorize calls with arbitrary sizes, the
\* capacities of the device lhs buffer and of the device workspace never
\* decrease; a Factorize whose required size does not exceed the capacity
\* leaves it unchanged; and when the factorization kernel is issued the lhs
\* capacity is at least n * n. (Capacities are those of a living instance.)
C10_DeviceBuffersGrowOnly ==
  [][/\ (inst.kind \in CUDAKinds /\ inst'.kind \in CUDAKinds) =>
          /\ inst'.lhs_size >= inst.lhs_size
          /\ inst'.ws_size >= inst.ws_size
     /\ \A n \in Dims : GPUFactorizeStep(n) =>
          /\ n * n <= inst.lhs_size => inst'.lhs_size = inst.lhs_size
          /\ last'.fnat.ws <= inst.ws_size => inst'.ws_size = inst.ws_size
          /\ (\/ Contains(last'.ops, "cusolverDnDpotrf")
              \/ Contains(last'.ops, "cusolverDnXpotrf"))
               => inst'.lhs_size >= n * n /\ inst'.ws_size >= last'.fnat.ws
    ]_vars

\* A GPU Factorize of a 1 x 1 matrix on an instance whose lhs buffer already
\* holds MaxN * MaxN elements: the capacity stays.
C10_Witness ==
  /\ inst.kind \in CUDAKinds
  /\ last.op = "Factorize"
  /\ Len(last.lhs) = 1
  /\ Contains(last.ops, "CopyToHost(error_)")
  /\ inst.lhs_size = MaxN * MaxN

\* What the Factorize of the most recent call hands back when it is run on a
\* newly constructed instance of the same backend that recorded s0.
FactorizeAfresh(s0) ==
  Factorize([inst |-> NewInstance(inst.kind, s0), lhs_buf |-> last.lhs,
             solution |-> Zeros, message |-> Msg("", 0), aborted |-> FALSE],
            Len(last.lhs), last.fnat)

\* C11: on every backend, the status a Factorize returns and the state it
\* records are those the same call (same matrix, same native outcomes) has on a
\* newly constructed instance, whatever the instance recorded before; and
\* after a Factorize that returned Failure, a Factorize that returns Success
\* makes a Solve that follows it and whose native step reports no error
\* succeed, with the solution of the newly factorized matrix.
C11_FactorizeReenters ==
  /\ last.op = "Factorize" =>
        \A s0 \in NonSuccess :
           /\ FactorizeAfresh(s0).ret = last.ret
           /\ RecordedState(FactorizeAfresh(s0).w.inst) = RecordedState(inst)
  /\ (/\ last.op = "Solve" /\ SolveStepClean /\ ~lhsRewritten
      /\ prevFactorize = "FAILURE" /\ lastFactorize = "SUCCESS") =>
        /\ last.ret = "SUCCESS"
        /\ IsSolutionOf(solution, factored, last.rhs)

\* A Solve that succeeds after a Failure and then a successful Factorize.
C11_Witness ==
  /\ last.op = "Solve" /\ SolveStepClean /\ ~lhsRewritten
  /\ prevFactorize = "FAILURE" /\ lastFactorize = "SUCCESS"
  /\ last.ret = "SUCCESS"

OtherVariant(kind) == IF kind = "CUDA32" THEN "CUDA64" ELSE "CUDA32"

\* The world w with its GPU instance taken as one of the other index width.
AsOtherVariant(w) == [w EXCEPT !.inst.kind = OtherVariant(@)]

\* C12: the 32-bit and the 64-bit GPU variant, run from the same state on the
\* same Factorize or Solve call with the same outcomes of the corresponding
\* native calls, return the same status and record the same
\* FactorizationState. (Init is one text for both variants.)
C12_VariantsAgree ==
  [][inst.kind \in CUDAKinds =>
       /\ last'.op = "Factorize" =>
            LET o == Factorize(
                       AsOtherVariant([World EXCEPT !.lhs_buf = last'.lhs,
                                                    !.solution = Zeros]),
                       Len(last'.lhs), last'.fnat)
            IN /\ o.ret = last'.ret
               /\ o.w.inst.factorize_result_ = inst'.factorize_result_
       /\ last'.op = "Solve" =>
            LET o == Solve(AsOtherVariant(World), last'.rhs, last'.snat)
            IN /\ o.ret = last'.ret
               /\ o.w.inst.factorize_result_ = inst'.factorize_result_
    ]_vars

\* Position of the first x in seq, 0 if there is none.
IndexOf(seq, x) ==
  IF Contains(seq, x)
  THEN CHOOSE i \in 1..Len(seq) : seq[i] = x /\ \A j \in 1..(i - 1) : seq[j] # x
  ELSE 0

Kernels ==
  {"cusolverDnDpotrf", "cusolverDnXpotrf", "cusolverDnDpotrs", "cusolverDnXpotrs"}
DeviceReads == {"CopyToHost(error_)", "CopyToHost(rhs_)"}

\* The most recent call is a GPU Factorize or Solve whose kernel launch
\* succeeded: position of the kernel in its operations, 0 otherwise.
KernelIssuedAt ==
  IF /\ inst.kind \in CUDAKinds
     /\ \/ last.op = "Factorize" /\ last.fnat.launch_ok
        \/ last.op = "Solve" /\ last.snat.launch_ok
     /\ \E i \in 1..Len(last.ops) : last.ops[i] \in Kernels
  THEN CHOOSE i \in 1..Len(last.ops) : last.ops[i] \in Kernels
  ELSE 0

\* C13: in both GPU variants, a Factorize or Solve that has issued its kernel
\* performs a device synchronization and a stream synchronization after the
\* kernel, and every read of the error cell and every copy of the solution to
\* the host comes after both.
C13_SyncBeforeRead ==
  KernelIssuedAt > 0 =>
    /\ IndexOf(last.ops, "cudaDeviceSynchronize") > KernelIssuedAt
    /\ IndexOf(last.ops, "cudaStreamSynchronize") > KernelIssuedAt
    /\ \A i \in 1..Len(last.ops) :
         last.ops[i] \in DeviceReads =>
           /\ i > IndexOf(last.ops, "cudaDeviceSynchronize")
           /\ i > IndexOf(last.ops, "cudaStreamSynchronize")

\* C14: Factorize (alone or in FactorAndSolve) on the Reference backend and on
\* both GPU variants leaves the caller's lhs buffer as the caller filled it,
\* for every matrix and every outcome.
C14_HostLhsUnchanged ==
  (last.op \in {"Factorize", "FactorAndSolve"} /\ inst.kind # "LAPACK")
    => lhs_buf = last.lhs

\* A Reference Factorize of the positive definite matrix of dimension MaxN:
\* the decomposition holds the factor, the caller's buffer still the matrix.
C14_Witness ==
  /\ last.op = "Factorize" /\ inst.kind = "EIGEN"
  /\ last.lhs = MatrixOf(MaxN, 0)
  /\ inst.llt_.L = PotrfFactor(last.lhs) /\ inst.llt_.L # last.lhs
  /\ lhs_buf = last.lhs

\* The backend of the configured type is compiled into the build.
Available(type, build) ==
  \/ type = "EIGEN"
  \/ type = "LAPACK" /\ ~build.no_lapack
  \/ type = "CUDA" /\ ~build.no_cuda

\* C15: DenseCholesky::Create returns an instance of the configured kind
\* only; when that kind is not compiled in, or the type is none of the three,
\* it ends in LOG(FATAL) and returns no instance; and the Reference type
\* always yields an instance.
C15_CreateSelectsKind ==
  last.op = "Create" =>
    /\ inst.kind # "NONE" => inst.kind \in KindsOf(last.type)
    /\ ~Available(last.type, last.build) => aborted /\ inst.kind = "NONE"
    /\ last.type = "EIGEN" => inst.kind = "EIGEN" /\ ~aborted

\* LAPACK configured in a build without LAPACK: fatal, no instance.
C15_Witness ==
  /\ last.op = "Create" /\ last.type = "LAPACK" /\ last.build.no_lapack
  /\ aborted /\ inst.kind = "NONE"

\* The most recent call is a Create that got to construct a GPU variant.
GPUCreate ==
  last.op = "Create" /\ last.type = "CUDA" /\ ~last.build.no_cuda

\* Every step of the Init of that Create succeeded.
InitStepsOk ==
  /\ ~(last.kind = "CUDA64" /\ last.build.no_64bit)
  /\ last.inat.create_ok /\ last.inat.stream_ok /\ last.inat.set_ok

\* The diagnostic naming the step of Init that failed.
FailedStepMessage ==
  IF last.kind = "CUDA64" /\ last.build.no_64bit
  THEN Msg("Cannot use CUDADenseCholesky64Bit with CUDA < 11.1.", 0)
  ELSE IF ~last.inat.create_ok
  THEN Msg("cuSolverDN::cusolverDnCreate failed.", 0)
  ELSE IF ~last.inat.stream_ok
  THEN Msg("cuSolverDN::cudaStreamCreate failed.", 0)
  ELSE Msg("cuSolverDN::cusolverDnSetStream failed.", 0)

\* C16: for both GPU variants, Create returns an instance if and only if
\* every step of Init succeeded; when a step fails Create returns nullptr and
\* the diagnostic naming the failed step is produced; and a GPU instance that
\* exists (on which Factorize and Solve can run) holds its handle and its
\* stream, both unreleased.
C16_CreateIffInit ==
  /\ GPUCreate =>
       /\ inst.kind \in CUDAKinds <=> InitStepsOk
       /\ ~InitStepsOk =>
            /\ ~aborted /\ inst.kind = "NONE"
            /\ last.logged = FailedStepMessage
  /\ inst.kind \in CUDAKinds =>
       /\ res.handle_acq /\ res.stream_acq
       /\ res.handle_rel = 0 /\ res.stream_rel = 0

\* The instance is gone or was never returned.
LifetimeOver ==
  inst.kind \notin Kinds /\ last.op \in {"Create", "Destroy"} /\ ~aborted

\* C19: over the lifetime of a GPU instance created through Create, the
\* solver handle and the stream are never released without having been
\* acquired and never released twice, and once the instance is gone each has
\* been released exactly once if it was acquired.
C19_ReleasedExactlyOnce ==
  /\ res.handle_rel <= (IF res.handle_acq THEN 1 ELSE 0)
  /\ res.stream_rel <= (IF res.stream_acq THEN 1 ELSE 0)
  /\ LifetimeOver =>
       /\ res.handle_acq => res.handle_rel = 1
       /\ res.stream_acq => res.stream_rel = 1

\* C17: every Factorize, Solve and FactorAndSolve that returns has written
\* the diagnostic message during the call.
C17_MessageWritten ==
  (last.op \in {"Factorize", "Solve", "FactorAndSolve"} /\ last.ret # "NONE")
    => last.wrote /\ message # Msg("", 0)

\* A GPU Solve that returns FatalError through the kernel-launch failure path.
C17_Witness ==
  /\ last.op = "Solve" /\ inst.kind \in CUDAKinds
  /\ ~last.snat.launch_ok
  /\ last.ret = "FATAL_ERROR"
  /\ message = Msg("cuSolverDN::cusolverDnXpotrs failed.", 0)

\* The native operations on the device.
DeviceOps ==
  Kernels \cup DeviceReads \cup
  {"CopyToGpu(lhs_)", "CopyToGpu(rhs_)", "cudaDeviceSynchronize",
   "cudaStreamSynchronize", "cusolverDnDpotrf_bufferSize",
   "cusolverDnXpotrf_bufferSize", "Reserve(lhs_)", "Reserve(device_workspace_)"}

\* C20: in both GPU variants, a Solve made when the last Factorize did not
\* return Success, or when there was none, performs no device operation.
C20_EarlySolveTouchesNoDevice ==
  (inst.kind \in CUDAKinds /\ last.op = "Solve" /\ lastFactorize # "SUCCESS")
    => \A i \in 1..Len(last.ops) : last.ops[i] \notin DeviceOps

\* A GPU Solve after a Factorize that returned Failure: it returns at once.
C20_Witness ==
  /\ inst.kind \in CUDAKinds /\ last.op = "Solve"
  /\ lastFactorize = "FAILURE"
  /\ last.ret = "FAILURE" /\ last.ops = <<>>

\* The most recent call is a GPU Factorize (alone or in FactorAndSolve) that
\* returned, and one of its native calls before the classification of the
\* error cell reported failure.
FactorizeStepFailed ==
  \/ ~last.fnat.bufsize_ok \/ ~last.fnat.launch_ok
  \/ ~last.fnat.dev_ok \/ ~last.fnat.stream_ok

\* C21: in both GPU variants the recorded factorize_result_ is the status the
\* most recent Factorize returned; it is Success only if that Factorize
\* completed every step (workspace query, kernel launch, synchronization) and
\* read the error cell zero, Failure only if the error cell was positive, and
\* FatalError whenever the workspace query, the kernel launch or a
\* synchronization failed.
C21_RecordedIsLastFactorize ==
  (inst.kind \in CUDAKinds /\ lastFactorize # "NONE") =>
    /\ inst.factorize_result_ = lastFactorize
    /\ last.op \in {"Factorize", "FactorAndSolve"} =>
         /\ inst.factorize_result_ = "SUCCESS" =>
              ~FactorizeStepFailed /\ FactorizeCode = 0
         /\ inst.factorize_result_ = "FAILURE" => FactorizeCode > 0
         /\ FactorizeStepFailed => inst.factorize_result_ = "FATAL_ERROR"

\* The most recent call is a Solve after a Factorize that returned Success,
\* its native solve step reported no error, and the caller has written to its
\* lhs buffer between the two.
SolveAfterRewrite ==
  /\ last.op = "Solve" /\ lastFactorize = "SUCCESS" /\ SolveStepClean
  /\ lhsRewritten

\* C22: on every backend the caller's lhs buffer is needed during Factorize
\* only: a Solve made after the caller has rewritten the buffer returns
\* Success with the solution of the matrix that was factorized and this
\* call's rhs, as if the buffer had been left alone.
C22_SolveIgnoresLaterLhs ==
  SolveAfterRewrite =>
    /\ last.ret = "SUCCESS"
    /\ IsSolutionOf(solution, factored, last.rhs)

\* The dimension a Solve on instance i uses: llt_->cols() on the Reference
\* backend, num_cols_ on the others.
SolveDimension(i) == IF i.kind = "EIGEN" THEN i.llt_.cols ELSE i.num_cols_

\* The most recent call ran a Solve that performed a computation, on an
\* instance that has had a Factorize return.
SolveComputed ==
  /\ Contains(last.calls, "Solve")
  /\ \E i \in 1..Len(last.ops) : last.ops[i] \in SolveOps
  /\ lastFactorize # "NONE"

\* C25: on every backend, whenever Solve performs a computation the
\* dimension it uses is the n passed to the most recent Factorize: it writes
\* no solution element beyond the n-th; and on the GPU this n is also the
\* dimension of the factor held in the device lhs buffer, after any sequence
\* of Factorize calls of varying sizes.
C25_SolveUsesFactorizedDimension ==
  SolveComputed =>
    /\ SolveDimension(inst) = Len(factored)
    /\ \A i \in 1..MaxN : i > Len(factored) => solution[i] = 0
    /\ inst.kind \in CUDAKinds => Len(inst.lhs_data) = inst.num_cols_

\* A GPU Solve of a 1 x 1 system on an instance that factorized a
\* MaxN x MaxN matrix before: one element is written.
C25_Witness ==
  /\ SolveComputed /\ last.op = "Solve" /\ last.ret = "SUCCESS"
  /\ inst.kind \in CUDAKinds
  /\ inst.lhs_size = MaxN * MaxN
  /\ Len(factored) = 1
  /\ solution[1] # 0 /\ solution[MaxN] = 0

\* C24: in both GPU variants, for every num_cols that is a non-negative int,
\* the element count Factorize computes for Reserve and CopyToGpu is the
\* product num_cols * num_cols of the integers: the int multiplication
\* neither overflows nor yields another value.
C24_ElementCountIsProduct ==
  elems.outcome \notin {"idle", "called"} =>
    /\ elems.outcome = "computed"
    /\ elems.count >= 0
    /\ \A k \in 1..8 :
         ProductBytes(elems.num_cols, elems.num_cols)[k]
           = (IF k <= 4 THEN Byte(elems.count, k - 1) ELSE 0)

\* The instance other than i.
OtherOf(i) == 3 - i

\* A call of instance k returns what it returns alone unless the instance is
\* a 64-bit GPU one and a synchronization of it has reported a failed task of
\* the other instance.
AsAlone(p, k) == ~p.hit[k] \/ p.ws[k].inst.kind # "CUDA64"

====
